---------------------------- MODULE Spec2Model ----------------------------
(***************************************************************************)
(* A model of the broadcast-email tool in src/app.py: the subscriber      *)
(* store (one SQLite table), the /subscribe and /unsubscribe handlers and *)
(* the /send dispatch.                                                     *)
(*                                                                         *)
(*   Spec      the store's handlers, one call at a time, with the storage *)
(*             errors an upsert may meet                                   *)
(*   SendSpec  /send requests over a store that changes between them      *)
(*   ConcSpec  store calls of concurrent requests, statement by statement *)
(*                                                                         *)
(* Text is a sequence of code points, so that strip(), lower(), replace(), *)
(* split() and sorted() are computed on characters as Python computes     *)
(* them.  A token is a natural number; secrets.token_urlsafe(24) draws    *)
(* 192 random bits, which is modelled as a choice among the tokens no     *)
(* stored row holds.                                                       *)
(***************************************************************************)
EXTENDS Naturals, Integers, Sequences, FiniteSets, TLC

VARIABLES
    table,      \* the committed rows of subscribers, in id order (id = index)
    last,       \* the store call that ran last, its arguments and its result
    prev,       \* the email the call before it stored, when that was a successful upsert
    cfg,        \* which of the environment's settings are set (non-empty, non-zero)
    pc,         \* where the /send request stands: "idle", "loop" or "done"
    form,       \* request.form of the /send request
    recipients, \* send_route's recipients
    todo,       \* what the for loop over sorted(recipients) has yet to visit
    token_map,  \* send_route's token_map
    inline_cache, \* send_route's inline_cache
    fetches,    \* calls of _fetch_image_for_inline made by the request
    attempts,   \* calls of send_one_email made by the request, in order
    sent_ok,    \* send_route's sent_ok
    sent_fail,  \* send_route's sent_fail
    response,   \* what the request returned
    cpc,        \* per web request: the statement its store call runs next
    call,       \* per web request: the store call it is in
    work,       \* per web request: the table as its open transaction sees it
    wlock,      \* the request whose transaction holds SQLite's write lock, or NoRequest
    hist        \* the store calls that have returned or raised, in that order

storeVars == <<table, last, prev>>
sendVars == <<pc, form, recipients, todo, token_map, inline_cache, fetches,
              attempts, sent_ok, sent_fail, response>>
concVars == <<cpc, call, work, wlock, hist>>
vars == <<table, last, prev, cfg, pc, form, recipients, todo, token_map,
          inline_cache, fetches, attempts, sent_ok, sent_fail, response,
          cpc, call, work, wlock, hist>>

---------------------------------------------------------------------------
(* Bounds *)

\* tokens secrets.token_urlsafe(24) is drawn from
MaxTokens == 3

\* tokens secrets.token_urlsafe(16) is drawn from
MaxMint == 1

\* store calls made by the concurrent web requests
MaxCalls == 3

---------------------------------------------------------------------------
(* Text *)

SP == 32
COMMA == 44
SEMI == 59
UpperA == 65
UpperZ == 90
CaseShift == 32

\* str.lower() on one character
LowerChar(c) == IF c >= UpperA /\ c <= UpperZ THEN c + CaseShift ELSE c

\* str.lower()
Lower(s) == [i \in DOMAIN s |-> LowerChar(s[i])]

RECURSIVE LStrip(_)
LStrip(s) == IF s # <<>> /\ Head(s) = SP THEN LStrip(Tail(s)) ELSE s

RECURSIVE RStrip(_)
RStrip(s) ==
    IF s # <<>> /\ s[Len(s)] = SP THEN RStrip(SubSeq(s, 1, Len(s) - 1)) ELSE s

\* str.strip()
Strip(s) == RStrip(LStrip(s))

\* Python's "x or None" on a stripped form field: None is <<>>, a value v is <<v>>
None == <<>>
OrNone(s) == IF s = <<>> THEN None ELSE <<s>>

---------------------------------------------------------------------------
(* The subscriber store *)

Tokens == 1 .. MaxTokens

\* request.args.get("token", "") when the query has no token
NoToken == 0

Row(email, name, token, status) ==
    [email |-> email, name |-> name, token |-> token, status |-> status]

\* CREATE TABLE IF NOT EXISTS subscribers: the table starts empty
init_db == <<>>

\* The UNIQUE constraints of the table: a new row conflicts with a stored one
\* on email or on token
Conflicts(tbl, email, token) ==
    \E i \in DOMAIN tbl : tbl[i].email = email \/ tbl[i].token = token

\* INSERT OR REPLACE: the rows the new one conflicts with are deleted
InsertOrReplace(tbl, email, name, token) ==
    Append(SelectSeq(tbl, LAMBDA r : r.email # email /\ r.token # token),
           Row(email, name, token, "active"))

\* a table whose email column is not UNIQUE: only a token conflict is ignored
InsertIgnoringTokenOnly(tbl, email, name, token) ==
    IF \E i \in DOMAIN tbl : tbl[i].token = token
    THEN tbl
    ELSE Append(tbl, Row(email, name, token, "active"))

\* INSERT OR IGNORE INTO subscribers (email, name, token, status)
\*   VALUES (?, ?, ?, 'active')
InsertOrIgnore(tbl, email, name, token) ==
    IF Conflicts(tbl, email, token)
    THEN tbl
    ELSE Append(tbl, Row(email, name, token, "active"))

\* UPDATE subscribers SET status='active' WHERE email=?
UpdateActive(tbl, email) ==
    [i \in DOMAIN tbl |->
        IF tbl[i].email = email THEN [tbl[i] EXCEPT !.status = "active"] ELSE tbl[i]]

\* UPDATE subscribers SET status='unsubscribed' WHERE id=?
UpdateUnsubscribed(tbl, id) ==
    [i \in DOMAIN tbl |->
        IF i = id THEN [tbl[i] EXCEPT !.status = "unsubscribed"] ELSE tbl[i]]

\* the SELECT without its WHERE clause
SelectAnyId(tbl, token) == DOMAIN tbl

\* SELECT id FROM subscribers WHERE token=? LIMIT 1: the ids the query may return
SelectIdByToken(tbl, token) == {i \in DOMAIN tbl : tbl[i].token = token}

\* The storage errors a call of upsert_subscriber may meet:
\*   "none"        no statement fails
\*   "insert"      the INSERT raises sqlite3.Error
\*   "update"      the UPDATE raises and SQLite undoes that statement alone
\*   "update_txn"  the UPDATE raises and SQLite rolls the transaction back
Faults == {"none", "insert", "update", "update_txn"}

\* upsert_subscriber(email, name): its result and the table it leaves
\* committed.  The except clause returns inside the with block, so the
\* connection's context manager commits whatever the transaction holds.
upsert_subscriber(tbl, email, name, token, fault) ==
    LET e == Lower(Strip(email)) IN
    IF e = <<>>
    THEN [ok |-> FALSE, err |-> "Email Kosong", table |-> tbl]
    ELSE IF fault = "insert"
    THEN [ok |-> FALSE, err |-> "sqlite3.Error", table |-> tbl]
    ELSE LET inserted == InsertOrIgnore(tbl, e, name, token) IN
         IF fault = "update"
         THEN [ok |-> FALSE, err |-> "sqlite3.Error", table |-> inserted]
         ELSE IF fault = "update_txn"
         THEN [ok |-> FALSE, err |-> "sqlite3.Error", table |-> tbl]
         ELSE [ok |-> TRUE, err |-> "None", table |-> UpdateActive(inserted, e)]

\* unsubscribe_by_token(token)
unsubscribe_by_token(tbl, token) ==
    LET ids == SelectIdByToken(tbl, token) IN
    IF ids = {}
    THEN [ok |-> FALSE, table |-> tbl]
    ELSE [ok |-> TRUE, table |-> UpdateUnsubscribed(tbl, CHOOSE i \in ids : TRUE)]

RECURSIVE Reverse(_)
Reverse(s) == IF s = <<>> THEN <<>> ELSE Append(Reverse(Tail(s)), Head(s))

\* get_active_emails(): SELECT email, name, token FROM subscribers
\*   WHERE status='active' ORDER BY id DESC
get_active_emails(tbl) ==
    Reverse(SelectSeq(tbl, LAMBDA r : r.status = "active"))

\* secrets.token_urlsafe(24) at a call of upsert_subscriber
NewTokens(tbl) == Tokens \ {tbl[i].token : i \in DOMAIN tbl}

---------------------------------------------------------------------------
(* The store's handlers *)

\* the values of the email field the model submits
EmailInputs == { <<SP>>, <<65>>, <<SP, 97, SP>>, <<98>>, <<66, SP>> }

\* the values of the name field
NameInputs == { <<SP>>, <<110>> }

NoCall == [op |-> "none", email |-> <<>>, token |-> NoToken, ok |-> FALSE,
           err |-> "None", before |-> <<>>, active_count |-> 0]

\* what the next call remembers of call c
Brief(c) == IF c.op = "upsert" /\ c.ok THEN Lower(Strip(c.email)) ELSE <<>>

\* POST /subscribe: the result of upsert_subscriber, which decides the flash
subscribe_submit(tbl, nameRaw, emailRaw, token, fault) ==
    LET name == OrNone(Strip(nameRaw))
        email == Strip(emailRaw)
    IN  upsert_subscriber(tbl, email, name, token, fault)

\* GET /unsubscribe: ok as rendered, and the table it leaves
unsubscribe(tbl, token) ==
    IF token = NoToken
    THEN [ok |-> FALSE, table |-> tbl]
    ELSE unsubscribe_by_token(tbl, token)

\* GET /: active_count as rendered
index(tbl) == Len(get_active_emails(tbl))

\* the settings send_route and send_one_email test
Configs ==
    [SMTP_HOST : BOOLEAN, SMTP_PORT : BOOLEAN, SMTP_USER : BOOLEAN,
     SMTP_PASS : BOOLEAN, SENDER_EMAIL : BOOLEAN]

AllSet ==
    [SMTP_HOST |-> TRUE, SMTP_PORT |-> TRUE, SMTP_USER |-> TRUE,
     SMTP_PASS |-> TRUE, SENDER_EMAIL |-> TRUE]

NoForm == [recipients |-> <<>>, use_audience |-> FALSE, mode |-> "send",
           test_email |-> <<>>, image_url |-> FALSE]

NoResponse == [kind |-> "none", flash |-> "None"]

\* the web requests that run store calls at the same time
Requests == {"r1", "r2"}

NoRequest == "none"

NoStoreCall == [op |-> "none", email |-> <<>>, name |-> None, token |-> NoToken,
                id |-> 0, began |-> 0]

\* no store call is under way
ConcIdle ==
    /\ cpc = [p \in Requests |-> "idle"]
    /\ call = [p \in Requests |-> NoStoreCall]
    /\ work = [p \in Requests |-> <<>>]
    /\ wlock = NoRequest
    /\ hist = <<>>

\* no /send request is being served
SendIdle ==
    /\ pc = "idle"
    /\ form = NoForm
    /\ recipients = {}
    /\ todo = <<>>
    /\ token_map = <<>>
    /\ inline_cache = "None"
    /\ fetches = 0
    /\ attempts = <<>>
    /\ sent_ok = <<>>
    /\ sent_fail = <<>>
    /\ response = NoResponse

Init ==
    /\ table = init_db
    /\ last = NoCall
    /\ prev = Brief(NoCall)
    /\ cfg = AllSet
    /\ SendIdle
    /\ ConcIdle

Subscribe ==
    \E n \in NameInputs, e \in EmailInputs, f \in Faults, token \in NewTokens(table) :
        LET r == subscribe_submit(table, n, e, token, f) IN
        /\ table' = r.table
        /\ last' = [op |-> "upsert", email |-> e, token |-> NoToken,
                    ok |-> r.ok, err |-> r.err, before |-> table,
                    active_count |-> 0]
        /\ prev' = Brief(last)
        /\ UNCHANGED <<cfg, sendVars, concVars>>

Unsubscribe ==
    \E t \in Tokens \cup {NoToken} :
        LET r == unsubscribe(table, t) IN
        /\ table' = r.table
        /\ last' = [op |-> "unsubscribe", email |-> <<>>, token |-> t,
                    ok |-> r.ok, err |-> "None", before |-> table,
                    active_count |-> 0]
        /\ prev' = Brief(last)
        /\ UNCHANGED <<cfg, sendVars, concVars>>

Index ==
    /\ last' = [op |-> "index", email |-> <<>>, token |-> NoToken,
                ok |-> TRUE, err |-> "None", before |-> table,
                active_count |-> index(table)]
    /\ prev' = Brief(last)
    /\ UNCHANGED <<table, cfg, sendVars, concVars>>

Next ==
    \/ Subscribe
    \/ Unsubscribe
    \/ Index

Spec == Init /\ [][Next]_vars

---------------------------------------------------------------------------
(* Properties of the store, under Spec *)

Normalize(e) == Lower(Strip(e))

RowsWithEmail(tbl, e) == {i \in DOMAIN tbl : tbl[i].email = e}

RowsWithToken(tbl, t) == {i \in DOMAIN tbl : tbl[i].token = t}

\* the call that ran last is the second of two successful upserts of one email
UpsertedTwice ==
    /\ last.op = "upsert"
    /\ last.ok
    /\ prev = Normalize(last.email)

\* C2: after upsert(e) followed by upsert(e) again, exactly one row has the
\* email normalize(e) and it is active; and in every state of the store no
\* two rows share an email.
C2_UpsertTwiceOneActiveRow ==
    /\ UpsertedTwice =>
          /\ Cardinality(RowsWithEmail(table, Normalize(last.email))) = 1
          /\ \A i \in RowsWithEmail(table, Normalize(last.email)) :
                table[i].status = "active"
    /\ \A i, j \in DOMAIN table : table[i].email = table[j].email => i = j

\* the second upsert of an email has run, with a different raw spelling than
\* the stored one, beside another subscriber's row
C2_Witness ==
    /\ UpsertedTwice
    /\ last.email # Normalize(last.email)
    /\ Len(table) = 2

\* C3: every call leaves each row that existed before it with the token it
\* had (re-subscription and unsubscribe do not change or remove it), and no
\* two rows hold the same token.
C3_TokenKeptAndUnique ==
    /\ \A i \in DOMAIN last.before :
          /\ i \in DOMAIN table
          /\ table[i].token = last.before[i].token
          /\ table[i].email = last.before[i].email
    /\ \A i, j \in DOMAIN table : table[i].token = table[j].token => i = j

\* an unsubscribed subscriber has re-subscribed, beside another subscriber
C3_Witness ==
    /\ last.op = "upsert"
    /\ last.ok
    /\ Len(table) = 2
    /\ \E i \in DOMAIN last.before :
          /\ last.before[i].email = Normalize(last.email)
          /\ last.before[i].status = "unsubscribed"
          /\ table[i].status = "active"

\* C4: unsubscribeByToken(t) with t the token of no stored row returns False
\* and leaves the whole table as it was.
C4_UnknownTokenNoChange ==
    (last.op = "unsubscribe" /\ RowsWithToken(last.before, last.token) = {}) =>
        (~last.ok /\ table = last.before)

\* an unknown, non-empty token was presented to a store holding an active row
C4_Witness ==
    /\ last.op = "unsubscribe"
    /\ last.token \in Tokens
    /\ RowsWithToken(last.before, last.token) = {}
    /\ \E i \in DOMAIN last.before : last.before[i].status = "active"

\* C8: an upsert that met a storage error returns failure and leaves the
\* committed table identical to the table before the call.
C8_FailedUpsertNoWrite ==
    (last.op = "upsert" /\ last.err = "sqlite3.Error") =>
        (~last.ok /\ table = last.before)

---------------------------------------------------------------------------
(* POST /send *)

\* raw_recipients.replace(";", ",")
ReplaceSemi(s) == [i \in DOMAIN s |-> IF s[i] = SEMI THEN COMMA ELSE s[i]]

\* str.split(sep): the parts between the separators, empty ones included
RECURSIVE Split(_, _)
Split(s, sep) ==
    IF \A i \in DOMAIN s : s[i] # sep
    THEN <<s>>
    ELSE LET k == CHOOSE i \in DOMAIN s :
                    s[i] = sep /\ \A j \in 1 .. (i - 1) : s[j] # sep
         IN  <<SubSeq(s, 1, k - 1)>> \o Split(SubSeq(s, k + 1, Len(s)), sep)

\* the loop that fills recipients from raw_recipients
ParseRecipients(raw) ==
    LET parts == Split(ReplaceSemi(raw), COMMA)
        stripped == {Strip(parts[i]) : i \in DOMAIN parts}
    IN  {Lower(e) : e \in stripped \ {<<>>}}

\* the loop that adds the audience rows to recipients
AudienceEmails(audience) == {Lower(audience[i].email) : i \in DOMAIN audience}

\* {row["email"].lower(): row["token"] for row in audience}: a later row
\* overrides an earlier one with the same key
TokenMap(audience) ==
    [e \in AudienceEmails(audience) |->
        LET rows == {i \in DOMAIN audience : Lower(audience[i].email) = e}
            i == CHOOSE x \in rows : \A y \in rows : y <= x
        IN  audience[i].token]

\* Python's < on str: by code point, a proper prefix first
RECURSIVE StrLess(_, _)
StrLess(a, b) ==
    IF b = <<>> THEN FALSE
    ELSE IF a = <<>> THEN TRUE
    ELSE IF Head(a) # Head(b) THEN Head(a) < Head(b)
    ELSE StrLess(Tail(a), Tail(b))

\* recipients visited in the set's own order instead of sorted
RECURSIVE unsorted(_)
unsorted(S) ==
    IF S = {}
    THEN <<>>
    ELSE LET m == CHOOSE x \in S : \A y \in S \ {x} : StrLess(y, x)
         IN  <<m>> \o unsorted(S \ {m})

\* sorted(recipients)
RECURSIVE sorted(_)
sorted(S) ==
    IF S = {}
    THEN <<>>
    ELSE LET m == CHOOSE x \in S : \A y \in S \ {x} : StrLess(x, y)
         IN  <<m>> \o sorted(S \ {m})

\* secrets.token_urlsafe(16): 22 characters, where a stored token has 32
MintTokens == (MaxTokens + 1) .. (MaxTokens + MaxMint)

\* build_unsub_link(token)
build_unsub_link(token) == [path |-> "/unsubscribe", token |-> token]

\* token_map.get(to_email, secrets.token_urlsafe(16))
TokenFor(tmap, to_email, minted) ==
    IF to_email \in DOMAIN tmap THEN tmap[to_email] ELSE minted

\* send_one_email: "ok" when it returns, the reason when it raises.  delivery
\* is what the SMTP session does
send_one_email(c, delivery) ==
    IF ~(c.SMTP_HOST /\ c.SMTP_PORT /\ c.SMTP_USER /\ c.SMTP_PASS)
    THEN "Konfigurasi SMTP tidak lengkap"
    ELSE delivery

Deliveries == {"ok", "smtp error"}

\* the values of the recipients field the model submits:
\* "", "A", "b,a", "c;B , a", " ; ,"
RecipientInputs ==
    { <<>>, <<65>>, <<98, COMMA, 97>>,
      <<99, SEMI, 66, SP, COMMA, SP, 97>>, <<SP, SEMI, SP, COMMA>> }

\* the values of the test_email field: "", " ", " B "
TestEmailInputs == { <<>>, <<SP>>, <<SP, 66, SP>> }

Forms ==
    [recipients : RecipientInputs, use_audience : BOOLEAN, mode : {"send", "test"},
     test_email : TestEmailInputs, image_url : BOOLEAN]

\* the test address added to the recipients instead of replacing them
ResolvedAddingTest(f, audience) ==
    LET merged == ParseRecipients(f.recipients) \cup AudienceEmails(audience)
    IN  IF f.mode = "test" THEN merged \cup {Lower(Strip(f.test_email))} ELSE merged

\* recipients as the for loop finds it: the manual addresses and the
\* audience, or in test mode the test address alone
Resolved(f, audience) ==
    LET merged == ParseRecipients(f.recipients) \cup AudienceEmails(audience)
    IN  IF f.mode = "test" THEN {Lower(Strip(f.test_email))} ELSE merged

\* flash(reason, "error"); return redirect(url_for("index"))
Redirect(f, reason) ==
    /\ pc' = "done"
    /\ form' = f
    /\ response' = [kind |-> "redirect", flash |-> reason]
    /\ UNCHANGED <<recipients, todo, token_map, inline_cache, fetches,
                   attempts, sent_ok, sent_fail>>

\* send_route up to its for loop: the checks of the settings, the recipient
\* set, the test override, the image fetch and token_map
SendBegin ==
    \E f \in Forms, fetched \in {"None", "image"} :
        /\ pc = "idle"
        /\ f.image_url \/ fetched = "None"
        /\ UNCHANGED <<concVars, table, last, prev, cfg>>
        /\ IF ~cfg.SMTP_PASS
           THEN Redirect(f, "SMTP_PASS belum diset")
           ELSE IF ~cfg.SENDER_EMAIL
           THEN Redirect(f, "SENDER_EMAIL belum diset")
           ELSE LET audience == IF f.use_audience
                                THEN get_active_emails(table)
                                ELSE <<>>
                    test_email == Strip(f.test_email)
                    resolved == Resolved(f, audience)
                IN  IF f.mode = "test" /\ test_email = <<>>
                    THEN Redirect(f, "Masukkan alamat Test to")
                    ELSE IF resolved = {}
                    THEN Redirect(f, "Tidak ada penerima")
                    ELSE /\ pc' = "loop"
                         /\ form' = f
                         /\ recipients' = resolved
                         /\ todo' = sorted(resolved)
                         /\ token_map' = TokenMap(audience)
                         /\ inline_cache' = fetched
                         /\ fetches' = IF f.image_url THEN 1 ELSE 0
                         /\ UNCHANGED <<attempts, sent_ok, sent_fail, response>>

\* a pass of the for loop that lets the exception of send_one_email escape
SendOneUncaught ==
    \E minted \in MintTokens, delivery \in Deliveries :
        /\ pc = "loop"
        /\ todo # <<>>
        /\ LET to_email == Head(todo)
               token == TokenFor(token_map, to_email, minted)
               unsub_link == build_unsub_link(token)
               raised == send_one_email(cfg, delivery)
           IN  /\ attempts' = Append(attempts,
                     [to |-> to_email, unsub_link |-> unsub_link,
                      inline |-> inline_cache # "None", raised |-> raised])
               /\ IF raised = "ok"
                  THEN /\ sent_ok' = Append(sent_ok, to_email)
                       /\ pc' = pc
                       /\ response' = response
                  ELSE /\ sent_ok' = sent_ok
                       /\ pc' = "done"
                       /\ response' = [kind |-> "error", flash |-> raised]
        /\ todo' = Tail(todo)
        /\ UNCHANGED <<concVars, table, last, prev, cfg, form, recipients, token_map,
                       inline_cache, fetches, sent_fail>>

\* one pass of the for loop
SendOne ==
    \E minted \in MintTokens, delivery \in Deliveries :
        /\ pc = "loop"
        /\ todo # <<>>
        /\ LET to_email == Head(todo)
               token == TokenFor(token_map, to_email, minted)
               unsub_link == build_unsub_link(token)
               raised == send_one_email(cfg, delivery)
           IN  /\ attempts' = Append(attempts,
                     [to |-> to_email, unsub_link |-> unsub_link,
                      inline |-> inline_cache # "None", raised |-> raised])
               /\ IF raised = "ok"
                  THEN /\ sent_ok' = Append(sent_ok, to_email)
                       /\ UNCHANGED sent_fail
                  ELSE /\ sent_fail' = Append(sent_fail, <<to_email, raised>>)
                       /\ UNCHANGED sent_ok
        /\ todo' = Tail(todo)
        /\ UNCHANGED <<concVars, table, last, prev, cfg, pc, form, recipients, token_map,
                       inline_cache, fetches, response>>

\* return render_template("success.html", ...)
SendReturn ==
    /\ pc = "loop"
    /\ todo = <<>>
    /\ pc' = "done"
    /\ response' = [kind |-> "report", flash |-> "None"]
    /\ UNCHANGED <<concVars, table, last, prev, cfg, form, recipients, todo, token_map,
                   inline_cache, fetches, attempts, sent_ok, sent_fail>>

\* the request is over and its locals are gone
SendClose ==
    /\ pc = "done"
    /\ pc' = "idle"
    /\ form' = NoForm
    /\ recipients' = {}
    /\ todo' = <<>>
    /\ token_map' = <<>>
    /\ inline_cache' = "None"
    /\ fetches' = 0
    /\ attempts' = <<>>
    /\ sent_ok' = <<>>
    /\ sent_fail' = <<>>
    /\ response' = NoResponse
    /\ UNCHANGED <<concVars, table, last, prev, cfg>>

\* the values of the email field submitted while the dispatch is studied
AudienceInputs == { <<65>>, <<98>> }

\* POST /subscribe between two /send requests
SendSubscribe ==
    \E e \in AudienceInputs, token \in NewTokens(table) :
        /\ pc = "idle"
        /\ table' = subscribe_submit(table, <<>>, e, token, "none").table
        /\ UNCHANGED <<last, prev, cfg, sendVars, concVars>>

\* GET /unsubscribe between two /send requests
SendUnsubscribe ==
    \E t \in Tokens :
        /\ pc = "idle"
        /\ table' = unsubscribe(table, t).table
        /\ UNCHANGED <<last, prev, cfg, sendVars, concVars>>

\* The environment is read once, when the module is imported
SendInit ==
    /\ table = init_db
    /\ last = NoCall
    /\ prev = Brief(NoCall)
    /\ cfg \in Configs
    /\ SendIdle
    /\ ConcIdle

SendNext ==
    \/ SendSubscribe
    \/ SendUnsubscribe
    \/ SendBegin
    \/ SendOne
    \/ SendReturn
    \/ SendClose

\* The handler runs to its return: the loop is over a finite list and each
\* pass ends (the SMTP calls and the sleep return or raise)
SendSpec ==
    SendInit /\ [][SendNext]_vars /\ WF_vars(SendOne) /\ WF_vars(SendReturn)

---------------------------------------------------------------------------
(* Properties of the dispatch, under SendSpec.  The store handlers of
   SendSpec run between two requests: send_route reads the store once,
   before its loop, so a store call during the loop changes nothing the
   request reads, and table is the store the request found. *)

Range(seq) == {seq[i] : i \in DOMAIN seq}

Attempted == {attempts[k].to : k \in DOMAIN attempts}

FailedTo == [i \in DOMAIN sent_fail |-> sent_fail[i][1]]

\* the request got past the checks of the settings at the top of send_route
PassedSettings == cfg.SMTP_PASS /\ cfg.SENDER_EMAIL

Reported == pc = "done" /\ response.kind = "report"

Ascending(seq) ==
    \A i, j \in DOMAIN seq : i < j => StrLess(seq[i], seq[j])

\* C1: in normal mode, every attempt to a manually entered address that is
\* the email of an active subscriber carries that subscriber's stored token
\* in its unsubscribe link, whether or not use_audience is set.
C1_ManualSubscriberStoredToken ==
    form.mode = "send" =>
        \A k \in DOMAIN attempts : \A i \in DOMAIN table :
            ( /\ attempts[k].to \in ParseRecipients(form.recipients)
              /\ table[i].email = attempts[k].to
              /\ table[i].status = "active" )
            => attempts[k].unsub_link.token = table[i].token

\* C5: in test mode with a non-empty test address the attempts go to
\* lower(test_email) and to nothing else, and a reported request has
\* attempted it; with an empty test address the request is redirected
\* with no attempt.  test_email is the handler's variable, the field
\* stripped, in a request that passed the checks of the settings.
C5_TestModeOnlyTestAddress ==
    (pc # "idle" /\ form.mode = "test" /\ PassedSettings) =>
        IF Strip(form.test_email) = <<>>
        THEN /\ pc = "done"
             /\ response.kind = "redirect"
             /\ attempts = <<>>
        ELSE /\ Attempted \subseteq {Lower(Strip(form.test_email))}
             /\ response.kind # "redirect"
             /\ Reported => Attempted = {Lower(Strip(form.test_email))}

\* a test request is reported whose recipients field and audience name
\* other addresses than the test address
C5_Witness ==
    /\ Reported
    /\ form.mode = "test"
    /\ form.use_audience
    /\ Len(get_active_emails(table)) = 2
    /\ ParseRecipients(form.recipients) # {}
    /\ form.test_email # Strip(form.test_email)
    /\ Strip(form.test_email) # Lower(Strip(form.test_email))

\* C6: a send that raises does not end the loop: while the request is in
\* the loop every recipient is attempted or still to come, and a request
\* that entered the loop ends with the report, every recipient attempted,
\* the raising ones in sent_fail with their reasons and the others in
\* sent_ok, in the order of the attempts.
C6_FailureDoesNotAbort ==
    /\ pc = "loop" => Attempted \cup Range(todo) = recipients
    /\ (pc = "done" /\ response.kind # "redirect") =>
          /\ response.kind = "report"
          /\ Attempted = recipients
          /\ Len(attempts) = Cardinality(recipients)
          /\ sent_fail = [i \in DOMAIN sent_fail |->
                <<SelectSeq(attempts, LAMBDA a : a.raised # "ok")[i].to,
                  SelectSeq(attempts, LAMBDA a : a.raised # "ok")[i].raised>>]
          /\ Len(sent_fail) = Len(SelectSeq(attempts, LAMBDA a : a.raised # "ok"))
          /\ sent_ok = [i \in DOMAIN sent_ok |->
                SelectSeq(attempts, LAMBDA a : a.raised = "ok")[i].to]
          /\ Len(sent_ok) = Len(SelectSeq(attempts, LAMBDA a : a.raised = "ok"))

\* three recipients, the transport failing for each: the report holds
\* all three in sent_fail and none in sent_ok
C6_Witness ==
    /\ Reported
    /\ Cardinality(recipients) = 3
    /\ \A k \in DOMAIN attempts : attempts[k].raised = "smtp error"
    /\ sent_ok = <<>>
    /\ Len(sent_fail) = 3

\* C7: with any of SMTP_HOST, SMTP_PORT, SMTP_USER, SMTP_PASS or
\* SENDER_EMAIL missing the request is redirected before any attempt: no
\* send_one_email call, no image fetch, no entry in sent_ok or sent_fail.
C7_MissingSettingRejects ==
    cfg # AllSet =>
        /\ pc = "done" => response.kind = "redirect"
        /\ attempts = <<>>
        /\ fetches = 0
        /\ sent_ok = <<>>
        /\ sent_fail = <<>>

C10_Order ==
    /\ \A r \in recipients : r = Lower(r)
    /\ Ascending([k \in DOMAIN attempts |-> attempts[k].to])
    /\ Attempted \subseteq recipients
    /\ pc = "loop" =>
          \A r \in recipients \ Attempted :
              /\ r \in Range(todo)
              /\ \A a \in Attempted : StrLess(a, r)
    /\ Reported =>
          /\ Attempted = recipients
          /\ Range(sent_ok) \cup Range(FailedTo) = recipients
          /\ Range(sent_ok) \cap Range(FailedTo) = {}
          /\ Len(sent_ok) + Len(sent_fail) = Cardinality(recipients)
          /\ Ascending(sent_ok)
          /\ Ascending(FailedTo)

\* C10: a dispatch that passes validation attempts each resolved address
\* once, in ascending order, and then returns; in the report every resolved
\* address is once in exactly one of sent_ok and sent_fail, each list in the
\* order of the attempts.
C10_SortedOnceThenDone == [](C10_Order) /\ ((pc = "loop") ~> Reported)

\* three addresses entered out of order, the second attempt failing
C10_Witness ==
    /\ Reported
    /\ form.recipients = <<99, SEMI, 66, SP, COMMA, SP, 97>>
    /\ sent_ok = << <<97>>, <<99>> >>
    /\ Len(sent_fail) = 1
    /\ sent_fail[1][1] = <<98>>

---------------------------------------------------------------------------
(* Store calls of concurrent web requests, statement by statement.

   Each call opens its own connection (get_db).  sqlite3 opens a transaction
   before the first INSERT or UPDATE of a connection, SQLite gives the write
   lock to one transaction at a time, and the others read the committed
   table; leaving the with block commits.  A statement that waits for the
   lock past the connection's timeout raises sqlite3.OperationalError. *)

\* the values of the email field the concurrent requests submit
ConcEmailInputs == { <<SP>>, <<65>>, <<98>> }

\* calls begun so far
Started == Len(hist) + Cardinality({p \in Requests : cpc[p] # "idle"})

\* secrets.token_urlsafe(24) in a request: a token no row and no other call holds
ConcNewTokens ==
    Tokens \ ( {table[i].token : i \in DOMAIN table}
               \cup {call[p].token : p \in Requests} )

\* a store without write lock: every transaction writes at once
LockIgnored(p) == TRUE

\* SQLite grants request p the write lock
LockFree(p) == wlock \in {NoRequest, p}

\* the call of request p is over: it returned ok (and obs), or raised err
Finish(p, ok, err, obs) ==
    /\ hist' = Append(hist, [op |-> call[p].op, email |-> call[p].email,
                             name |-> call[p].name, token |-> call[p].token,
                             began |-> call[p].began,
                             ok |-> ok, err |-> err, obs |-> obs])
    /\ cpc' = [cpc EXCEPT ![p] = "idle"]
    /\ call' = [call EXCEPT ![p] = NoStoreCall]
    /\ work' = [work EXCEPT ![p] = <<>>]

\* upsert_subscriber up to its with block
UpsertCall(p) ==
    \E e \in ConcEmailInputs, token \in ConcNewTokens :
        /\ cpc[p] = "idle"
        /\ Started < MaxCalls
        /\ LET email == Lower(Strip(e)) IN
           IF email = <<>>
           THEN /\ hist' = Append(hist,
                      [op |-> "upsert", email |-> email, name |-> None,
                       token |-> token, began |-> Len(hist),
                       ok |-> FALSE, err |-> "Email Kosong", obs |-> <<>>])
                /\ UNCHANGED <<cpc, call>>
           ELSE /\ cpc' = [cpc EXCEPT ![p] = "insert"]
                /\ call' = [call EXCEPT ![p] =
                      [op |-> "upsert", email |-> email, name |-> None,
                       token |-> token, id |-> 0, began |-> Len(hist)]]
                /\ UNCHANGED hist
        /\ UNCHANGED <<table, work, wlock, last, prev, cfg, sendVars>>

\* the INSERT OR IGNORE of upsert_subscriber
InsertStmt(p) ==
    /\ cpc[p] = "insert"
    /\ LockFree(p)
    /\ wlock' = p
    /\ work' = [work EXCEPT ![p] =
          InsertOrIgnore(table, call[p].email, call[p].name, call[p].token)]
    /\ cpc' = [cpc EXCEPT ![p] = "update"]
    /\ UNCHANGED <<table, call, hist, last, prev, cfg, sendVars>>

\* the UPDATE of upsert_subscriber
UpdateStmt(p) ==
    /\ cpc[p] = "update"
    /\ work' = [work EXCEPT ![p] = UpdateActive(work[p], call[p].email)]
    /\ cpc' = [cpc EXCEPT ![p] = "commit"]
    /\ UNCHANGED <<table, call, wlock, hist, last, prev, cfg, sendVars>>

\* return True inside the with block: the context manager commits
Commit(p) ==
    /\ cpc[p] = "commit"
    /\ table' = work[p]
    /\ wlock' = IF wlock = p THEN NoRequest ELSE wlock
    /\ Finish(p, TRUE, "None", <<>>)
    /\ UNCHANGED <<last, prev, cfg, sendVars>>

\* a statement that needs the write lock times out: upsert_subscriber
\* catches the error and returns (False, reason), unsubscribe_by_token lets
\* it escape and the context manager rolls back
Busy(p) ==
    /\ cpc[p] \in {"insert", "unsub"}
    /\ ~LockFree(p)
    /\ Finish(p, FALSE, "database is locked", <<>>)
    /\ UNCHANGED <<table, wlock, last, prev, cfg, sendVars>>

\* GET /unsubscribe with a token: unsubscribe_by_token is entered
UnsubCall(p) ==
    \E t \in Tokens :
        /\ cpc[p] = "idle"
        /\ Started < MaxCalls
        /\ cpc' = [cpc EXCEPT ![p] = "select"]
        /\ call' = [call EXCEPT ![p] =
              [op |-> "unsubscribe", email |-> <<>>, name |-> None,
               token |-> t, id |-> 0, began |-> Len(hist)]]
        /\ UNCHANGED <<table, work, wlock, hist, last, prev, cfg, sendVars>>

\* the SELECT of unsubscribe_by_token and the return False when it finds no row
SelectStmt(p) ==
    /\ cpc[p] = "select"
    /\ LET ids == SelectIdByToken(table, call[p].token) IN
       IF ids = {}
       THEN Finish(p, FALSE, "None", <<>>)
       ELSE /\ \E id \in ids : call' = [call EXCEPT ![p].id = id]
            /\ cpc' = [cpc EXCEPT ![p] = "unsub"]
            /\ UNCHANGED <<work, hist>>
    /\ UNCHANGED <<table, wlock, last, prev, cfg, sendVars>>

\* the UPDATE of unsubscribe_by_token
UnsubStmt(p) ==
    /\ cpc[p] = "unsub"
    /\ LockFree(p)
    /\ wlock' = p
    /\ work' = [work EXCEPT ![p] = UpdateUnsubscribed(table, call[p].id)]
    /\ cpc' = [cpc EXCEPT ![p] = "commit"]
    /\ UNCHANGED <<table, call, hist, last, prev, cfg, sendVars>>

\* get_active_emails of another request
ListCall(p) ==
    /\ cpc[p] = "idle"
    /\ Started < MaxCalls
    /\ hist' = Append(hist,
          [op |-> "list", email |-> <<>>, name |-> None, token |-> NoToken,
           began |-> Len(hist), ok |-> TRUE, err |-> "None",
           obs |-> get_active_emails(table)])
    /\ UNCHANGED <<table, cpc, call, work, wlock, last, prev, cfg, sendVars>>

ConcNext ==
    \E p \in Requests :
        \/ UpsertCall(p)
        \/ InsertStmt(p)
        \/ UpdateStmt(p)
        \/ Commit(p)
        \/ Busy(p)
        \/ UnsubCall(p)
        \/ SelectStmt(p)
        \/ UnsubStmt(p)
        \/ ListCall(p)

ConcSpec == Init /\ [][ConcNext]_vars

---------------------------------------------------------------------------
(* The property of concurrent calls, under ConcSpec *)

\* call c run alone on table tbl.  A call that gave up waiting for the
\* lock wrote nothing and is replayed as such
RunAlone(tbl, c) ==
    IF c.err = "database is locked"
    THEN [ok |-> FALSE, table |-> tbl, obs |-> <<>>]
    ELSE IF c.op = "upsert"
    THEN LET r == upsert_subscriber(tbl, c.email, c.name, c.token, "none")
         IN  [ok |-> r.ok, table |-> r.table, obs |-> <<>>]
    ELSE IF c.op = "unsubscribe"
    THEN LET r == unsubscribe_by_token(tbl, c.token)
         IN  [ok |-> r.ok, table |-> r.table, obs |-> <<>>]
    ELSE [ok |-> TRUE, table |-> tbl, obs |-> get_active_emails(tbl)]

Orders(n) ==
    {f \in [1 .. n -> 1 .. n] : \A i, j \in 1 .. n : f[i] = f[j] => i = j}

\* running the finished calls one after another in this order, from the k-th
\* on and starting at tbl, gives each call the result it had and ends in
\* the committed table
RECURSIVE SerialFrom(_, _, _)
SerialFrom(order, k, tbl) ==
    IF k > Len(hist)
    THEN tbl = table
    ELSE LET c == hist[order[k]]
             r == RunAlone(tbl, c)
         IN  /\ r.ok = c.ok
             /\ r.obs = c.obs
             /\ SerialFrom(order, k + 1, r.table)

\* C9: whatever the interleaving of the statements of concurrent upsert,
\* unsubscribe and listActive calls, in every state the finished calls can
\* be put in a serial order that gives every call its result (what
\* listActive and the SELECT saw included) and the committed table: no call
\* is seen half applied, and the final table is that of a serial run.
C9_CallsSerializable ==
    \E order \in Orders(Len(hist)) : SerialFrom(order, 1, init_db)

\* a subscriber was created; then an unsubscribe with its token and a
\* re-subscription of its email ran at the same time, the re-subscription
\* committing first
C9_Witness ==
    /\ Len(hist) = 3
    /\ hist[1].op = "upsert" /\ hist[1].ok
    /\ hist[2].op = "upsert" /\ hist[2].ok
    /\ hist[2].email = hist[1].email
    /\ hist[2].began = 1
    /\ hist[3].op = "unsubscribe" /\ hist[3].ok
    /\ hist[3].token = hist[1].token
    /\ hist[3].began = 1
    /\ Len(table) = 1
    /\ table[1].status = "unsubscribed"

===========================================================================
